---- MODULE Spec2Model ----
(***************************************************************************)
(* Model of src/data_validator.py: the DataValidator checks over an        *)
(* in-memory table (pandas DataFrame).  Every check is a pure function of  *)
(* the frame and its parameters; a specification draws the frame from a    *)
(* bounded set in its Init and its actions apply the checks.               *)
(*                                                                         *)
(* A frame is [columns, dtypes, rows]: the ordered column names, the       *)
(* dtype label of each column and the rows, each row a function from       *)
(* column name to a cell.  A cell is null (NaN/None), a scalar value, or   *)
(* a Python list (an unhashable object held by an object column).          *)
(***************************************************************************)
EXTENDS Integers, Sequences, FiniteSets, TLC

VARIABLES df, call, result

vars == <<df, call, result>>

---------------------------------------------------------------------------
(* Cells and frames *)

NullCell == [tag |-> "null", v |-> 0]

Val(n) == [tag |-> "val", v |-> n]

ListCell == [tag |-> "list", v |-> 0]

isna(c) == c.tag = "null"

len(frame) == Len(frame.rows)

ColSet(frame) == {frame.columns[i] : i \in 1..Len(frame.columns)}

Column(frame, c) == [i \in 1..len(frame) |-> frame.rows[i][c]]

\* All sequences over S of length 0..n
SeqUpTo(S, n) == UNION {[1..k -> S] : k \in 0..n}

\* Frames with the given ordered columns and dtypes, at most n rows, the
\* cells of column c drawn from cells[c]
Frames(cols, dtypes, cells, n) ==
  LET names == {cols[i] : i \in 1..Len(cols)}
      Rows == {r \in [names -> UNION {cells[c] : c \in names}] :
                 \A c \in names : r[c] \in cells[c]}
  IN {[columns |-> cols, dtypes |-> dtypes, rows |-> rs] : rs \in SeqUpTo(Rows, n)}

NoCall == [op |-> "none"]

NoResult == [op |-> "none", status |-> "none"]

Ok(op, value) == [op |-> op, status |-> "ok", value |-> value]

Raise(op, exc) == [op |-> op, status |-> "raise", value |-> exc]

---------------------------------------------------------------------------
(* Floating-point quotients: pandas true division of an int64 Series by a  *)
(* Python int.  A zero divisor does not raise: 0/0 is NaN, x/0 is inf.     *)

NaN == [kind |-> "nan", num |-> 0, den |-> 1]

Inf == [kind |-> "inf", num |-> 0, den |-> 1]

Num(a, b) == [kind |-> "num", num |-> a, den |-> b]

TrueDiv(a, b) ==
  IF b = 0 THEN (IF a = 0 THEN NaN ELSE Inf) ELSE Num(a, b)

---------------------------------------------------------------------------
(* DataValidator.missing_summary *)

MissingCount(frame, c) ==
  Cardinality({i \in 1..len(frame) : isna(frame.rows[i][c])})

missing_summary(frame) ==
  LET n == len(frame)
  IN Ok("missing",
        [rows |-> n,
         columns |-> Len(frame.columns),
         per_column |-> [c \in ColSet(frame) |->
            [missing_count |-> MissingCount(frame, c),
             missing_pct |-> TrueDiv(MissingCount(frame, c), n)]]])

MaxMissingRows == 3

MissingCols == <<"id", "name">>

MissingFrames ==
  Frames(MissingCols, [id |-> "float64", name |-> "object"],
         [id |-> {NullCell, Val(1)}, name |-> {NullCell, Val(1)}],
         MaxMissingRows)

InitMissing ==
  /\ df \in MissingFrames
  /\ call = NoCall
  /\ result = NoResult

CallMissingSummary ==
  /\ call' = [op |-> "missing"]
  /\ result' = missing_summary(df)
  /\ UNCHANGED df

NextMissing == CallMissingSummary

SpecMissing == InitMissing /\ [][NextMissing]_vars

\* C1: after missing_summary every column's missing_pct is a number in
\* [0, 1], and it is exactly 0 for every column when the frame has 0 rows.
C1_MissingPctDefined ==
  (result.op = "missing") =>
    /\ result.status = "ok"
    /\ \A c \in ColSet(df) :
         LET p == result.value.per_column[c].missing_pct
         IN /\ p.kind = "num"
            /\ 0 <= p.num /\ p.num <= p.den
            /\ (len(df) = 0 => p.num = 0)

---------------------------------------------------------------------------
(* DataValidator.duplicates.  subset is None ([given |-> FALSE]) or a      *)
(* non-empty list of column names.                                         *)

NoSubset == [given |-> FALSE, cols |-> <<>>]

Subset(cols) == [given |-> TRUE, cols |-> cols]

SeqSet(s) == {s[i] : i \in 1..Len(s)}

\* The values of one row in the compared columns, in subset order
RowKey(row, sub) == [k \in 1..Len(sub) |-> row[sub[k]]]

\* Variant in which a null never matches another null
KeySeenNullDistinct(key, seen) ==
  /\ key \in seen
  /\ \A k \in 1..Len(key) : ~isna(key[k])

\* factorize gives every null of a column one label and get_group_index
\* (xnull=False) keeps it as a group of its own: null matches null
KeySeen(key, seen) == key \in seen

\* duplicated(ids, keep="first"): one pass in row order over the group ids,
\* flagging a row whose id was seen before
RECURSIVE MarkDuplicated(_, _, _, _)
MarkDuplicated(rows, sub, i, seen) ==
  IF i > Len(rows) THEN <<>>
  ELSE LET key == RowKey(rows[i], sub)
       IN <<KeySeen(key, seen)>> \o MarkDuplicated(rows, sub, i + 1, seen \cup {key})

\* DataFrame.duplicated(subset): an empty frame returns an empty mask before
\* the subset is looked at; otherwise unknown subset columns raise KeyError
\* and unhashable cells of the compared columns raise TypeError
duplicated(frame, subset) ==
  LET sub == IF subset.given THEN subset.cols ELSE frame.columns
  IN IF len(frame) = 0 \/ Len(frame.columns) = 0
       THEN Ok("duplicated", <<>>)
     ELSE IF SeqSet(sub) \ ColSet(frame) # {}
       THEN Raise("duplicated", "KeyError")
     ELSE IF \E i \in 1..len(frame) : \E c \in SeqSet(sub) : frame.rows[i][c].tag = "list"
       THEN Raise("duplicated", "TypeError")
     ELSE Ok("duplicated", MarkDuplicated(frame.rows, sub, 1, {}))

\* df[mask]: the rows whose mask entry is True, in row order
RECURSIVE SelectRows(_, _)
SelectRows(rows, mask) ==
  IF rows = <<>> THEN <<>>
  ELSE (IF Head(mask) THEN <<Head(rows)>> ELSE <<>>) \o SelectRows(Tail(rows), Tail(mask))

Min(a, b) == IF a <= b THEN a ELSE b

\* Variant returning the last n rows
headFromEnd(s, n) == SubSeq(s, Len(s) - Min(n, Len(s)) + 1, Len(s))

head(s, n) == SubSeq(s, 1, Min(n, Len(s)))

SampleRows == 5

RECURSIVE CountTrue(_)
CountTrue(mask) ==
  IF mask = <<>> THEN 0 ELSE (IF Head(mask) THEN 1 ELSE 0) + CountTrue(Tail(mask))

duplicates(frame, subset) ==
  LET dup_mask == duplicated(frame, subset)
  IN IF dup_mask.status = "raise" THEN Raise("duplicates", dup_mask.value)
     ELSE LET count == CountTrue(dup_mask.value)
              sample == IF count # 0
                          THEN head(SelectRows(frame.rows, dup_mask.value), SampleRows)
                          ELSE <<>>
          IN Ok("duplicates", [duplicate_count |-> count, sample_rows |-> sample])

MaxDupRows == 7

DupCols == <<"id", "name">>

DupFrames ==
  Frames(DupCols, [id |-> "float64", name |-> "object"],
         [id |-> {NullCell, Val(1)}, name |-> {Val(1), Val(2)}],
         MaxDupRows)

DupSubsets ==
  {NoSubset, Subset(<<"id">>), Subset(<<"name">>), Subset(<<"name", "id">>),
   Subset(<<"ghost">>), Subset(<<"id", "ghost">>)}

InitDup ==
  /\ df \in DupFrames
  /\ call = NoCall
  /\ result = NoResult

CallDuplicates ==
  \E subset \in DupSubsets :
    /\ call' = [op |-> "duplicates", subset |-> subset]
    /\ result' = duplicates(df, subset)
    /\ UNCHANGED df

NextDup == CallDuplicates

SpecDup == InitDup /\ [][NextDup]_vars

\* The columns a duplicates call compares
Compared == IF call.subset.given THEN SeqSet(call.subset.cols) ELSE ColSet(df)

\* Rows that repeat an earlier row on the compared columns
Repeats(cols) ==
  {i \in 1..len(df) :
     \E j \in 1..(i - 1) : \A c \in cols : df.rows[j][c] = df.rows[i][c]}

DupCallOnKnownColumns == call.op = "duplicates" /\ Compared \subseteq ColSet(df)

\* C4: duplicate_count is the number of rows equal, on all compared columns,
\* to some earlier row (null equal to null); so it is at most the row count
\* and 0 for frames of at most one row.
C4_DuplicateCount ==
  DupCallOnKnownColumns =>
    /\ result.status = "ok"
    /\ result.value.duplicate_count = Cardinality(Repeats(Compared))
    /\ result.value.duplicate_count <= len(df)
    /\ (len(df) <= 1 => result.value.duplicate_count = 0)

\* C4 witness: a partial subset, a null repeated in the compared column
C4_Witness ==
  /\ DupCallOnKnownColumns
  /\ call.subset.given /\ call.subset.cols = <<"id">>
  /\ result.status = "ok"
  /\ result.value.duplicate_count >= 2
  /\ \E i \in Repeats({"id"}) : isna(df.rows[i]["id"]) /\ i \notin Repeats(ColSet(df))

\* C5: sample_rows holds the first min(duplicate_count, 5) flagged rows in
\* row order, each a full row of the frame; empty when nothing is flagged.
C5_SampleRows ==
  DupCallOnKnownColumns =>
    LET D == Repeats(Compared)
        sample == result.value.sample_rows
    IN /\ result.status = "ok"
       /\ Len(sample) = Min(result.value.duplicate_count, 5)
       /\ (result.value.duplicate_count = 0 => sample = <<>>)
       /\ \A k \in 1..Len(sample) :
            \E i \in D :
              /\ Cardinality({j \in D : j < i}) = k - 1
              /\ sample[k] = df.rows[i]
              /\ DOMAIN sample[k] = ColSet(df)

\* C5 witness: more than 5 rows flagged on a partial subset, the sample
\* rows differing outside the compared column
C5_Witness ==
  /\ DupCallOnKnownColumns
  /\ call.subset.given /\ call.subset.cols = <<"id">>
  /\ result.status = "ok"
  /\ result.value.duplicate_count > 5
  /\ Len(result.value.sample_rows) = 5
  /\ \E k \in 1..5 : result.value.sample_rows[k]["name"] # result.value.sample_rows[1]["name"]
  /\ df.rows[len(df)] # result.value.sample_rows[5]

\* C6: a subset naming a column that the frame does not have makes
\* duplicates fail with a column-not-found error (KeyError), whatever the
\* other entries and the row count.
C6_UnknownSubsetColumnFails ==
  (call.op = "duplicates" /\ ~(Compared \subseteq ColSet(df))) =>
    (result.status = "raise" /\ result.value = "KeyError")

---------------------------------------------------------------------------
(* DataValidator.dtype_issues.  expected is None ([given |-> FALSE]) or a  *)
(* dict from column name to dtype label, possibly empty.                   *)

NoExpected == [given |-> FALSE, map |-> <<>>]

Expected(m) == [given |-> TRUE, map |-> m]

\* Variant of dict.get whose default is the object dtype
ActualGetObject(actual, c) == IF c \in DOMAIN actual THEN actual[c] ELSE "object"

\* actual.get(c): None for a name that is not a column of the frame
ActualGet(actual, c) == IF c \in DOMAIN actual THEN actual[c] ELSE "None"

\* if expected: a None and an empty dict are both falsy
Truthy(expected) == expected.given /\ DOMAIN expected.map # {}

dtype_issues(frame, expected) ==
  LET actual == [c \in ColSet(frame) |-> frame.dtypes[c]]
      bad == IF Truthy(expected)
               THEN {c \in DOMAIN expected.map : ActualGet(actual, c) # expected.map[c]}
               ELSE {}
  IN Ok("dtypes",
        [actual_dtypes |-> actual,
         dtype_mismatches |-> [c \in bad |->
            [expected |-> expected.map[c], actual |-> ActualGet(actual, c)]]])

MaxDtypeRows == 1

DtypeLabels == {"int64", "object"}

DtypeNames == {"id", "name", "ghost"}

DtypeColumns == {<<>>, <<"id">>, <<"name">>, <<"id", "name">>}

DtypeFrames ==
  UNION {UNION {Frames(cols, dt, [c \in SeqSet(cols) |-> {Val(1)}], MaxDtypeRows) :
                  dt \in [SeqSet(cols) -> DtypeLabels]} :
           cols \in DtypeColumns}

DtypeExpecteds ==
  {NoExpected} \cup
  UNION {{Expected(m) : m \in [keys -> DtypeLabels]} : keys \in SUBSET DtypeNames}

InitDtype ==
  /\ df \in DtypeFrames
  /\ call = NoCall
  /\ result = NoResult

CallDtypeIssues ==
  \E expected \in DtypeExpecteds :
    /\ call' = [op |-> "dtypes", expected |-> expected]
    /\ result' = dtype_issues(df, expected)
    /\ UNCHANGED df

NextDtype == CallDtypeIssues

SpecDtype == InitDtype /\ [][NextDtype]_vars

ExpectedKeys == IF call.expected.given THEN DOMAIN call.expected.map ELSE {}

\* Columns of both the frame and the expectation whose dtypes differ
DifferingShared ==
  {c \in ExpectedKeys \cap ColSet(df) : df.dtypes[c] # call.expected.map[c]}

\* C3 as stated: the keys of dtype_mismatches are exactly the columns that
\* are in both the frame and the expectation and whose kinds differ (a
\* column named only in the expectation is not reported); no keys when the
\* expectation is omitted or empty.
C3_MismatchesOnlyShared ==
  (call.op = "dtypes") =>
    /\ result.status = "ok"
    /\ DOMAIN result.value.dtype_mismatches = DifferingShared
    /\ (ExpectedKeys = {} => DOMAIN result.value.dtype_mismatches = {})

\* C3 amended: the keys of dtype_mismatches are the columns of both inputs
\* whose kinds differ together with every column named only in the
\* expectation, which is reported with actual = None; no keys when the
\* expectation is omitted or empty.
C3_MismatchesIncludeAbsent ==
  (call.op = "dtypes") =>
    /\ result.status = "ok"
    /\ DOMAIN result.value.dtype_mismatches = DifferingShared \cup (ExpectedKeys \ ColSet(df))
    /\ \A c \in ExpectedKeys \ ColSet(df) :
         result.value.dtype_mismatches[c] = [expected |-> call.expected.map[c], actual |-> "None"]
    /\ \A c \in DifferingShared :
         result.value.dtype_mismatches[c] = [expected |-> call.expected.map[c], actual |-> df.dtypes[c]]
    /\ (ExpectedKeys = {} => DOMAIN result.value.dtype_mismatches = {})

\* C3 witness: one matching column, one differing column and one column
\* named only in the expectation, with the object label
C3_Witness ==
  /\ call.op = "dtypes"
  /\ ColSet(df) = {"id", "name"}
  /\ ExpectedKeys = {"id", "name", "ghost"}
  /\ call.expected.map["ghost"] = "object"
  /\ DifferingShared = {"name"}
  /\ DOMAIN result.value.dtype_mismatches = {"name", "ghost"}

---------------------------------------------------------------------------
(* DataValidator.cardinality_report *)

\* Variant in which hashing a list does not fail
UnhashableNever(col) == FALSE

\* A Python list held by an object column cannot be hashed
Unhashable(col) == \E i \in 1..Len(col) : col[i].tag = "list"

\* The distinct cells of a column in first-seen order
RECURSIVE FirstSeen(_, _)
FirstSeen(col, seen) ==
  IF col = <<>> THEN <<>>
  ELSE IF Head(col) \in seen THEN FirstSeen(Tail(col), seen)
  ELSE <<Head(col)>> \o FirstSeen(Tail(col), seen \cup {Head(col)})

Occurrences(col, cell) == Cardinality({i \in 1..Len(col) : col[i] = cell})

\* Variant of the hash-table count with dropna=True
ValueCountDropNa(col) ==
  LET keys == FirstSeen(SelectSeq(col, LAMBDA c : ~isna(c)), {})
  IN [k \in 1..Len(keys) |-> [value |-> keys[k], count |-> Occurrences(col, keys[k])]]

\* The hash-table count behind value_counts(dropna=False): one (value,
\* count) pair per distinct cell, null included, in first-seen order
ValueCount(col) ==
  LET keys == FirstSeen(col, {})
  IN [k \in 1..Len(keys) |-> [value |-> keys[k], count |-> Occurrences(col, keys[k])]]

\* sort_values(ascending=False) with the default kind="quicksort": the
\* counts come out in descending order; quicksort is not a stable sort, so
\* the order among equal counts is whatever the numpy build produces
SortValuesDescending(vc) ==
  LET n == Len(vc)
      perms == {p \in [1..n -> 1..n] : \A i, j \in 1..n : i # j => p[i] # p[j]}
  IN {[k \in 1..n |-> vc[p[k]]] : p \in
        {q \in perms : \A k \in 1..(n - 1) : vc[q[k]].count >= vc[q[k + 1]].count}}

\* Series.value_counts(dropna=False): the possible sorted outcomes, or the
\* TypeError of an unhashable cell
value_counts(col) ==
  IF Unhashable(col) THEN {Raise("value_counts", "TypeError")}
  ELSE {Ok("value_counts", sorted) : sorted \in SortValuesDescending(ValueCount(col))}

CardinalityError == "could not compute value_counts"

\* The body of the per-column try/except
CardinalityEntry(vc, top_n) ==
  IF vc.status = "raise" THEN [error |-> CardinalityError]
  ELSE [unique |-> Len(vc.value), top_values |-> head(vc.value, top_n)]

\* The loop over df.columns: the reports over the columns cols[1..k], each
\* column adding one entry
RECURSIVE CardinalityLoop(_, _, _, _)
CardinalityLoop(frame, cols, k, top_n) ==
  IF k = 0 THEN {<<>>}
  ELSE LET entries == {CardinalityEntry(vc, top_n) : vc \in value_counts(Column(frame, cols[k]))}
       IN UNION {{report @@ (cols[k] :> e) : e \in entries} :
                   report \in CardinalityLoop(frame, cols, k - 1, top_n)}

\* The reports cardinality_report can return
cardinality_report(frame, top_n) ==
  {Ok("cardinality", report) :
     report \in CardinalityLoop(frame, frame.columns, Len(frame.columns), top_n)}

MaxCardRows == 4

MaxTopN == 2

CardCols == <<"id", "name">>

CardFrames ==
  Frames(CardCols, [id |-> "float64", name |-> "object"],
         [id |-> {NullCell, Val(1), Val(2), Val(3)}, name |-> {Val(1), ListCell}],
         MaxCardRows)

InitCard ==
  /\ df \in CardFrames
  /\ call = NoCall
  /\ result = NoResult

CallCardinalityReport ==
  \E top_n \in 0..MaxTopN :
    \E r \in cardinality_report(df, top_n) :
      /\ call' = [op |-> "cardinality", top_n |-> top_n]
      /\ result' = r
      /\ UNCHANGED df

NextCard == CallCardinalityReport

SpecCard == InitCard /\ [][NextCard]_vars

Distinct(c) == {df.rows[i][c] : i \in 1..len(df)}

CountIn(c, cell) == Cardinality({i \in 1..len(df) : df.rows[i][c] = cell})

FirstIndex(c, cell) == CHOOSE i \in 1..len(df) :
  df.rows[i][c] = cell /\ \A j \in 1..(i - 1) : df.rows[j][c] # cell

\* cell a ranks before cell b: more frequent, or as frequent and seen first
RanksBefore(c, a, b) ==
  \/ CountIn(c, a) > CountIn(c, b)
  \/ CountIn(c, a) = CountIn(c, b) /\ FirstIndex(c, a) < FirstIndex(c, b)

Computable(c) == \A i \in 1..len(df) : df.rows[i][c].tag # "list"

\* unique and the size and counts of top_values, common to C9 as stated and
\* as amended
CardinalityCounts(c) ==
  LET e == result.value[c]
  IN /\ DOMAIN e = {"unique", "top_values"}
     /\ e.unique = Cardinality(Distinct(c))
     /\ Len(e.top_values) = Min(call.top_n, e.unique)
     /\ \A k \in 1..Len(e.top_values) :
          /\ e.top_values[k].value \in Distinct(c)
          /\ e.top_values[k].count = CountIn(c, e.top_values[k].value)

C9_NullWitness ==
  /\ call.op = "cardinality" /\ call.top_n = 2
  /\ Computable("id")
  /\ result.value["id"].unique = 3
  /\ result.value["id"].top_values[1] = [value |-> NullCell, count |-> 2]

\* C10 as stated: a column whose frequency computation fails gets exactly
\* {error: "unsupported column kind"}, every other column its normal entry,
\* and the report has one entry per column.
C10_ErrorUnsupportedKind ==
  (call.op = "cardinality") =>
    /\ result.status = "ok"
    /\ DOMAIN result.value = ColSet(df)
    /\ \A c \in ColSet(df) :
         IF Computable(c)
           THEN DOMAIN result.value[c] = {"unique", "top_values"}
           ELSE result.value[c] = [error |-> "unsupported column kind"]

\* C10 amended: the failed column's entry is exactly
\* {error: "could not compute value_counts"}; the rest as stated.
C10_ErrorInline ==
  (call.op = "cardinality") =>
    /\ result.status = "ok"
    /\ DOMAIN result.value = ColSet(df)
    /\ \A c \in ColSet(df) :
         IF Computable(c)
           THEN CardinalityCounts(c)
           ELSE result.value[c] = [error |-> "could not compute value_counts"]

\* C10 witness: one column fails and the other is reported normally
C10_Witness ==
  /\ call.op = "cardinality" /\ call.top_n = 2
  /\ ~Computable("name") /\ Computable("id")
  /\ result.value["name"] = [error |-> "could not compute value_counts"]
  /\ result.value["id"].unique = 2

---------------------------------------------------------------------------
(* _iqr_bounds and DataValidator.outlier_summary.  numeric_cols is None    *)
(* ([given |-> FALSE]) or a list of numeric columns of the frame.  factor  *)
(* is a multiple of 1/2, given in halves; quantiles are kept in quarters   *)
(* and bounds in eighths, which is exact for integer-valued data.          *)

\* Series.dropna(): the non-null values in row order
dropna(col) ==
  LET kept == SelectSeq(col, LAMBDA c : ~isna(c))
  IN [k \in 1..Len(kept) |-> kept[k].v]

RECURSIVE Insert(_, _)
Insert(x, sorted) ==
  IF sorted = <<>> THEN <<x>>
  ELSE IF x <= Head(sorted) THEN <<x>> \o sorted
  ELSE <<Head(sorted)>> \o Insert(x, Tail(sorted))

RECURSIVE Sort(_)
Sort(vals) == IF vals = <<>> THEN <<>> ELSE Insert(Head(vals), Sort(Tail(vals)))

\* Variant with interpolation="lower"
quantileLower(vals, quarters) ==
  LET sorted == Sort(vals)
      pos == quarters * (Len(vals) - 1)
  IN 4 * sorted[(pos \div 4) + 1]

\* Series.quantile(quarters/4), linear interpolation between the order
\* statistics around position q*(n-1); the result is in quarters
quantile(vals, quarters) ==
  LET sorted == Sort(vals)
      pos == quarters * (Len(vals) - 1)
      lo == (pos \div 4) + 1
      frac == pos % 4
  IN IF frac = 0 THEN 4 * sorted[lo]
     ELSE 4 * sorted[lo] + frac * (sorted[lo + 1] - sorted[lo])

\* (low, high) in eighths for a factor given in halves
iqr_bounds(vals, halves) ==
  LET q1 == quantile(vals, 1)
      q3 == quantile(vals, 3)
      iqr == q3 - q1
  IN [low |-> 2 * q1 - halves * iqr, high |-> 2 * q3 + halves * iqr]

\* Variant without the s.empty test: the quantiles of no values are NaN
OutlierEntryUnguarded(s, halves) ==
  IF s = <<>>
    THEN [n |-> 0, low_bound |-> NaN, high_bound |-> NaN, below |-> 0, above |-> 0]
  ELSE LET b == iqr_bounds(s, halves)
       IN [n |-> Len(s),
           low_bound |-> Num(b.low, 8),
           high_bound |-> Num(b.high, 8),
           below |-> Cardinality({k \in 1..Len(s) : 8 * s[k] < b.low}),
           above |-> Cardinality({k \in 1..Len(s) : 8 * s[k] > b.high})]

\* The body of the loop over numeric_cols for one column
OutlierEntry(s, halves) ==
  IF s = <<>> THEN [n |-> 0]
  ELSE LET b == iqr_bounds(s, halves)
       IN [n |-> Len(s),
           low_bound |-> Num(b.low, 8),
           high_bound |-> Num(b.high, 8),
           below |-> Cardinality({k \in 1..Len(s) : 8 * s[k] < b.low}),
           above |-> Cardinality({k \in 1..Len(s) : 8 * s[k] > b.high})]

\* df.select_dtypes(include=["number"]).columns.tolist()
NumericColumns(frame) ==
  SelectSeq(frame.columns, LAMBDA c : frame.dtypes[c] \in {"int64", "float64"})

NoNumericCols == [given |-> FALSE, cols |-> <<>>]

NumericCols(cols) == [given |-> TRUE, cols |-> cols]

outlier_summary(frame, numeric_cols, halves) ==
  LET cols == IF numeric_cols.given THEN numeric_cols.cols ELSE NumericColumns(frame)
  IN Ok("outliers",
        [c \in SeqSet(cols) |-> OutlierEntry(dropna(Column(frame, c)), halves)])

MaxOutlierRows == 5

MaxWideRows == 2

MaxFactorHalves == 3

\* One numeric column, rows enough for the quartiles to interpolate
LongFrames ==
  Frames(<<"x">>, [x |-> "float64"],
         [x |-> {NullCell, Val(10), Val(12), Val(13), Val(200)}],
         MaxOutlierRows)

\* Two numeric columns and a text column
WideFrames ==
  Frames(<<"x", "name", "y">>, [x |-> "float64", name |-> "object", y |-> "float64"],
         [x |-> {NullCell, Val(1), Val(5)}, name |-> {NullCell, Val(1)}, y |-> {NullCell, Val(2)}],
         MaxWideRows)

\* The lists of distinct numeric columns of a frame
NumericColLists(frame) ==
  LET nums == SeqSet(NumericColumns(frame))
  IN {cols \in SeqUpTo(nums, Cardinality(nums)) :
        \A i, j \in 1..Len(cols) : i # j => cols[i] # cols[j]}

InitOutlier ==
  /\ df \in LongFrames \cup WideFrames
  /\ call = NoCall
  /\ result = NoResult

CallOutlierSummary ==
  \E halves \in 0..MaxFactorHalves :
    \E numeric_cols \in {NoNumericCols} \cup {NumericCols(cols) : cols \in NumericColLists(df)} :
      /\ call' = [op |-> "outliers", numeric_cols |-> numeric_cols, halves |-> halves]
      /\ result' = outlier_summary(df, numeric_cols, halves)
      /\ UNCHANGED df

NextOutlier == CallOutlierSummary

SpecOutlier == InitOutlier /\ [][NextOutlier]_vars

\* The columns an outlier_summary call selects
Selected ==
  IF call.numeric_cols.given THEN SeqSet(call.numeric_cols.cols)
  ELSE {c \in ColSet(df) : df.dtypes[c] \in {"int64", "float64"}}

NonNull(c) == {i \in 1..len(df) : ~isna(df.rows[i][c])}

\* The k-th smallest (k from 0) non-null value of column c, by rank
OrderStat(c, k) ==
  CHOOSE v \in {df.rows[i][c].v : i \in NonNull(c)} :
    /\ Cardinality({i \in NonNull(c) : df.rows[i][c].v < v}) <= k
    /\ Cardinality({i \in NonNull(c) : df.rows[i][c].v <= v}) > k

\* The q-th quartile of column c in quarters, interpolated linearly
Quartile4(c, q) ==
  LET pos == q * (Cardinality(NonNull(c)) - 1)
      k == pos \div 4
  IN IF pos % 4 = 0 THEN 4 * OrderStat(c, k)
     ELSE (4 - (pos % 4)) * OrderStat(c, k) + (pos % 4) * OrderStat(c, k + 1)

\* C7: for a selected column with n > 0 non-null values, low_bound is
\* q1 - factor*(q3 - q1) and high_bound is q3 + factor*(q3 - q1) for the
\* linearly interpolated quartiles, low_bound <= high_bound, below counts the
\* values strictly under low_bound and above those strictly over high_bound.
C7_IqrBounds ==
  (call.op = "outliers") =>
    \A c \in Selected : NonNull(c) # {} =>
      LET e == result.value[c]
          q1 == Quartile4(c, 1)
          q3 == Quartile4(c, 3)
          low8 == 2 * q1 - call.halves * (q3 - q1)
          high8 == 2 * q3 + call.halves * (q3 - q1)
      IN /\ e.n = Cardinality(NonNull(c))
         /\ e.low_bound = Num(low8, 8)
         /\ e.high_bound = Num(high8, 8)
         /\ e.low_bound.num <= e.high_bound.num
         /\ e.below = Cardinality({i \in NonNull(c) : 8 * df.rows[i][c].v < low8})
         /\ e.above = Cardinality({i \in NonNull(c) : 8 * df.rows[i][c].v > high8})
         /\ e.below + e.above <=
              Cardinality({i \in NonNull(c) : 8 * df.rows[i][c].v # low8 /\ 8 * df.rows[i][c].v # high8})

\* C7 witness: [10, 12, 12, 13, 200] with factor 1.5 gives bounds 10.5 and
\* 14.5, below = 1 and above = 1
C7_Witness ==
  /\ call.op = "outliers" /\ call.halves = 3
  /\ Column(df, "x") = <<Val(10), Val(12), Val(12), Val(13), Val(200)>>
  /\ result.value["x"] =
       [n |-> 5, low_bound |-> Num(84, 8), high_bound |-> Num(116, 8), below |-> 1, above |-> 1]

\* C7 witness for interpolated quartiles on unsorted data: [13, 10] with
\* factor 0 has q1 = 10.75 and q3 = 12.25
C7_InterpolationWitness ==
  /\ call.op = "outliers" /\ call.halves = 0
  /\ Column(df, "x") = <<Val(13), Val(10)>>
  /\ result.value["x"] =
       [n |-> 2, low_bound |-> Num(86, 8), high_bound |-> Num(98, 8), below |-> 1, above |-> 1]

\* C8: a selected column without non-null values is reported as exactly
\* {n: 0}, no error is raised, and every other selected column is reported.
C8_EmptyColumn ==
  (call.op = "outliers") =>
    /\ result.status = "ok"
    /\ DOMAIN result.value = Selected
    /\ \A c \in Selected :
         IF NonNull(c) = {}
           THEN result.value[c] = [n |-> 0]
           ELSE /\ DOMAIN result.value[c] = {"n", "low_bound", "high_bound", "below", "above"}
                /\ result.value[c].n = Cardinality(NonNull(c))

\* C8 witness: an all-null column and a column with values, both selected
C8_Witness ==
  /\ call.op = "outliers"
  /\ len(df) = 2
  /\ Selected = {"x", "y"}
  /\ NonNull("x") = {} /\ NonNull("y") # {}
  /\ result.value["x"] = [n |-> 0]
  /\ result.value["y"].n = 1

\* C8 witness for the frame without rows
C8_NoRowsWitness ==
  /\ call.op = "outliers" /\ ~call.numeric_cols.given
  /\ len(df) = 0 /\ ColSet(df) = {"x"}
  /\ result.value = [c \in {"x"} |-> [n |-> 0]]

---------------------------------------------------------------------------
(* DataValidator.validate *)

ValidateTopN == 5

DefaultFactorHalves == 3

\* The dict display evaluates the five checks in order; nothing catches an
\* exception, so the first check that raises ends the call
validate(frame, expected_schema) ==
  LET missing == missing_summary(frame)
      dups == duplicates(frame, NoSubset)
      dtypes == dtype_issues(frame, expected_schema)
      outliers == outlier_summary(frame, NoNumericCols, DefaultFactorHalves)
  IN IF missing.status = "raise" THEN {Raise("validate", missing.value)}
     ELSE IF dups.status = "raise" THEN {Raise("validate", dups.value)}
     ELSE IF dtypes.status = "raise" THEN {Raise("validate", dtypes.value)}
     ELSE {IF outliers.status = "raise" THEN Raise("validate", outliers.value)
           ELSE Ok("validate",
                   [missing |-> missing.value,
                    duplicates |-> dups.value,
                    dtypes |-> dtypes.value,
                    cardinality |-> cardinality.value,
                    outliers |-> outliers.value]) :
             cardinality \in cardinality_report(frame, ValidateTopN)}

MaxValidateRows == 2

ValidateFrames ==
  Frames(<<"id", "name">>, [id |-> "float64", name |-> "object"],
         [id |-> {NullCell, Val(1)}, name |-> {Val(1), ListCell}],
         MaxValidateRows)

InitValidate ==
  /\ df \in ValidateFrames
  /\ call = NoCall
  /\ result = NoResult

CallValidate ==
  \E expected_schema \in DtypeExpecteds :
    \E r \in validate(df, expected_schema) :
      /\ call' = [op |-> "validate", expected |-> expected_schema]
      /\ result' = r
      /\ UNCHANGED df

NextValidate == CallValidate

SpecValidate == InitValidate /\ [][NextValidate]_vars

CheckNames == {"missing", "duplicates", "dtypes", "cardinality", "outliers"}

\* C2: when one of the five checks raises, validate still returns a report
\* with an entry for each check: the results of the checks that did not
\* raise and an error marker under the key of the one that did.
C2_FailureIsolated ==
  (call.op = "validate") =>
    /\ result.status = "ok"
    /\ DOMAIN result.value = CheckNames
    /\ result.value.missing = missing_summary(df).value
    /\ result.value.dtypes = dtype_issues(df, call.expected).value
    /\ result.value.outliers = outlier_summary(df, NoNumericCols, DefaultFactorHalves).value
    /\ (duplicates(df, NoSubset).status = "ok" =>
          result.value.duplicates = duplicates(df, NoSubset).value)

====
